---- MODULE Spec2Model ----
(***************************************************************************)
(* Model of bincode's byte sources (src/de/read.rs): SliceReader, a cursor *)
(* over a borrowed byte region, and IoReader, a reader over an io::Read    *)
(* resource with one reusable scratch buffer (temp_buffer).                *)
(***************************************************************************)
EXTENDS Integers, Sequences, FiniteSets, TLC

\* Longest underlying byte region / stream.
MaxInput == 3
\* Longest input of a session that drives both sources side by side.
MaxPairInput == 2
\* Largest `length` a caller requests; it exceeds what is left of every
\* input but the longest ones at their start.
MaxReq == MaxInput

\* Code points of the text the inputs are cut from: 'A', encoded as the byte
\* 0x41, and U+00C0, encoded as the bytes 0xC3 0x80.
Chars == {65, 192}

\* A cell of reserved storage that has not been written (its value is
\* indeterminate); bytes are 0..255.
Uninit == 256

RECURSIVE SeqsUpTo(_, _)
SeqsUpTo(S, n) ==
    IF n = 0 THEN {<<>>}
    ELSE LET shorter == SeqsUpTo(S, n - 1)
         IN  shorter \cup {Append(s, x) : s \in {t \in shorter : Len(t) = n - 1}, x \in S}

Min(a, b) == IF a < b THEN a ELSE b
Take(s, n) == SubSeq(s, 1, Min(n, Len(s)))
Drop(s, n) == SubSeq(s, Min(n, Len(s)) + 1, Len(s))

----------------------------------------------------------------------------
(* std::str::from_utf8 and the encoding it inverts                         *)

\* Width of the UTF-8 sequence a first byte announces (0: not a first byte).
utf8_char_width(b) ==
    IF b < 128 THEN 1
    ELSE IF b >= 194 /\ b <= 223 THEN 2
    ELSE IF b >= 224 /\ b <= 239 THEN 3
    ELSE IF b >= 240 /\ b <= 244 THEN 4
    ELSE 0

IsCont(b) == b >= 128 /\ b <= 191

\* Whether the sequence of width w starting at v[i] is well formed.
SeqOk(v, i, w) ==
    /\ w > 0
    /\ i + w - 1 <= Len(v)
    /\ \A k \in 2..w : IsCont(v[i + k - 1])
    /\ w = 3 => /\ (v[i] = 224 => v[i + 1] >= 160)
                /\ (v[i] = 237 => v[i + 1] <= 159)
    /\ w = 4 => /\ (v[i] = 240 => v[i + 1] >= 144)
                /\ (v[i] = 244 => v[i + 1] <= 143)

\* Number of leading bytes of v, from position i on, that are valid UTF-8.
RECURSIVE valid_up_to(_, _)
valid_up_to(v, i) ==
    IF i > Len(v) THEN Len(v)
    ELSE LET w == utf8_char_width(v[i])
         IN  IF SeqOk(v, i, w) THEN valid_up_to(v, i + w) ELSE i - 1

\* from_utf8(v): Ok(the same bytes seen as a str) or Err(Utf8Error).
from_utf8(v) ==
    LET n == valid_up_to(v, 1)
    IN  [ok |-> n = Len(v), valid_up_to |-> n]

\* The code points of a str (valid UTF-8 bytes).
RECURSIVE chars(_)
chars(v) ==
    IF v = <<>> THEN <<>>
    ELSE LET w == utf8_char_width(v[1])
             c == IF w = 1 THEN v[1]
                  ELSE IF w = 2 THEN (v[1] % 32) * 64 + (v[2] % 64)
                  ELSE IF w = 3 THEN (v[1] % 16) * 4096 + (v[2] % 64) * 64 + (v[3] % 64)
                  ELSE (v[1] % 8) * 262144 + (v[2] % 64) * 4096
                       + (v[3] % 64) * 64 + (v[4] % 64)
         IN  <<c>> \o chars(SubSeq(v, w + 1, Len(v)))

\* The UTF-8 encoding of one code point.
encode_utf8(c) ==
    IF c < 128 THEN <<c>>
    ELSE IF c < 2048 THEN <<192 + (c \div 64), 128 + (c % 64)>>
    ELSE IF c < 65536 THEN <<224 + (c \div 4096), 128 + ((c \div 64) % 64), 128 + (c % 64)>>
    ELSE <<240 + (c \div 262144), 128 + ((c \div 4096) % 64),
           128 + ((c \div 64) % 64), 128 + (c % 64)>>

\* The bytes of a string given by its code points.
RECURSIVE as_bytes(_)
as_bytes(s) ==
    IF s = <<>> THEN <<>> ELSE encode_utf8(Head(s)) \o as_bytes(Tail(s))

\* The strings whose encoding fits the input bound.
Strings == {s \in SeqsUpTo(Chars, MaxInput) : Len(as_bytes(s)) <= MaxInput}

\* The inputs: every run of at most MaxInput bytes cut, at any byte
\* positions, out of encoded text. Beside the encoded strings themselves
\* these hold invalid UTF-8: a run that starts with the continuation byte
\* 0x80 or ends with the lead byte 0xC3.
Inputs ==
    UNION {LET b == as_bytes(s)
           IN  {SubSeq(b, w[1], w[2]) :
                   w \in {x \in (1..(Len(b) + 1)) \X (0..Len(b)) : x[2] - x[1] < MaxInput}}
           : s \in SeqsUpTo(Chars, MaxInput)}

----------------------------------------------------------------------------
VARIABLES
    storage,      \* the underlying bytes both sources are built over
    slice,        \* SliceReader.slice: a fat pointer [ptr, len] into storage
    sres,         \* outcome of the last SliceReader operation
    reader,       \* IoReader.reader: the resource, pos bytes of storage consumed,
                  \* and the result of the last read asked of it
    temp_buffer,  \* IoReader.temp_buffer: a Vec [len, cap, mem]
    ires,         \* outcome of the last IoReader operation
    borrowed,     \* the views of the region the SliceReader's caller holds, each
                  \* with the bytes it denoted when it was handed out
    delivered     \* the bytes the caller received from each source so far, in
                  \* call order

vars == <<storage, slice, sres, reader, temp_buffer, ires, borrowed, delivered>>
sliceVars == <<slice, sres>>
ioVars == <<reader, temp_buffer, ires>>

\* The bytes a slice [ptr, len] of the region denotes.
Deref(s) == SubSeq(storage, s.ptr + 1, s.ptr + s.len)

MatOps == {"forward_read_str", "get_byte_buffer", "forward_read_bytes"}

NoSlice == [ptr |-> 0, len |-> 0]

----------------------------------------------------------------------------
(* SliceReader                                                             *)

\* SliceReader::new(bytes): the whole region.
SliceReader_new(bytes) == [ptr |-> 0, len |-> Len(bytes)]

\* SliceReader::unexpected_eof(): ErrorKind::Io(UnexpectedEof).
unexpected_eof == "UnexpectedEof"

\* get_byte_slice without `self.slice = &self.slice[length..]`.
get_byte_slice_no_advance(self, length) ==
    IF length > self.len
    THEN [status |-> unexpected_eof, s |-> NoSlice, self |-> self]
    ELSE [status |-> "Ok", s |-> [ptr |-> self.ptr, len |-> length], self |-> self]

\* get_byte_slice that gives up the rest of the region when it fails.
get_byte_slice_eof_drains(self, length) ==
    IF length > self.len
    THEN [status |-> unexpected_eof, s |-> NoSlice,
          self |-> [ptr |-> self.ptr + self.len, len |-> 0]]
    ELSE [status |-> "Ok",
          s      |-> [ptr |-> self.ptr, len |-> length],
          self   |-> [ptr |-> self.ptr + length, len |-> self.len - length]]

\* get_byte_slice that returns `self.slice` instead of `&self.slice[..length]`.
get_byte_slice_whole(self, length) ==
    IF length > self.len
    THEN [status |-> unexpected_eof, s |-> NoSlice, self |-> self]
    ELSE [status |-> "Ok",
          s      |-> self,
          self   |-> [ptr |-> self.ptr + length, len |-> self.len - length]]

\* get_byte_slice that tests `length >= self.slice.len()`.
get_byte_slice_off_by_one(self, length) ==
    IF length >= self.len
    THEN [status |-> unexpected_eof, s |-> NoSlice, self |-> self]
    ELSE [status |-> "Ok",
          s      |-> [ptr |-> self.ptr, len |-> length],
          self   |-> [ptr |-> self.ptr + length, len |-> self.len - length]]

\* get_byte_slice(&mut self, length): the result, the view s it returns
\* and the reader's slice afterwards.
SliceReader_get_byte_slice(self, length) ==
    IF length > self.len
    THEN [status |-> unexpected_eof, s |-> NoSlice, self |-> self]
    ELSE [status |-> "Ok",
          s      |-> [ptr |-> self.ptr, len |-> length],
          self   |-> [ptr |-> self.ptr + length, len |-> self.len - length]]

\* read that copies the bytes out without `*self = b` (no advance).
slice_read_no_advance(self, n) ==
    LET amt == Min(n, self.len)
    IN  [status |-> "Ok",
         s      |-> [ptr |-> self.ptr, len |-> amt],
         self   |-> self]

\* <&[u8] as io::Read>::read: copies min(n, len) bytes and advances past them.
slice_read(self, n) ==
    LET amt == Min(n, self.len)
    IN  [status |-> "Ok",
         s      |-> [ptr |-> self.ptr, len |-> amt],
         self   |-> [ptr |-> self.ptr + amt, len |-> self.len - amt]]

\* <&[u8] as io::Read>::read_exact: all n bytes or UnexpectedEof; on failure
\* the standard library either leaves the slice alone or empties it,
\* depending on its version (drain).
slice_read_exact(self, n, drain) ==
    IF n > self.len
    THEN [status |-> "UnexpectedEof", s |-> NoSlice,
          self   |-> IF drain THEN [ptr |-> self.ptr + self.len, len |-> 0] ELSE self]
    ELSE [status |-> "Ok",
          s      |-> [ptr |-> self.ptr, len |-> n],
          self   |-> [ptr |-> self.ptr + n, len |-> self.len - n]]

\* The record of one SliceReader operation: length is the `length` asked of
\* a materialization (a sequential read records only what it delivered), gbs
\* the result of its get_byte_slice call, s the view that call returned, out the bytes the
\* caller received (through the visitor `via`, as a Vec, or in `out`).
SliceOutcome(op, length, gbs, status, s, via, out) ==
    [op |-> op, length |-> length, gbs |-> gbs, status |-> status,
     s |-> s, via |-> via, out |-> out]

\* forward_read_str that reports bytes that are no text as a short input.
SliceStep_forward_read_str_eof_for_invalid(length) ==
    \E r \in {SliceReader_get_byte_slice(slice, length)} :
      \E u \in {from_utf8(Deref(r.s))} :
        /\ slice' = r.self
        /\ sres' = IF r.status # "Ok" \/ ~u.ok
                   THEN SliceOutcome("forward_read_str", length, r.status, unexpected_eof,
                                     NoSlice, "none", <<>>)
                   ELSE SliceOutcome("forward_read_str", length, "Ok", "Ok",
                                     r.s, "visit_borrowed_str", Deref(r.s))

\* <SliceReader as BincodeRead>::forward_read_str
SliceStep_forward_read_str(length) ==
    \E r \in {SliceReader_get_byte_slice(slice, length)} :
      \E u \in {from_utf8(Deref(r.s))} :
        /\ slice' = r.self
        /\ sres' = IF r.status # "Ok"
                   THEN SliceOutcome("forward_read_str", length, r.status, r.status,
                                     NoSlice, "none", <<>>)
                   ELSE IF ~u.ok
                   THEN SliceOutcome("forward_read_str", length, "Ok", "InvalidUtf8Encoding",
                                     r.s, "none", <<>>)
                   ELSE SliceOutcome("forward_read_str", length, "Ok", "Ok",
                                     r.s, "visit_borrowed_str", Deref(r.s))

\* <SliceReader as BincodeRead>::get_byte_buffer
SliceStep_get_byte_buffer(length) ==
    \E r \in {SliceReader_get_byte_slice(slice, length)} :
        /\ slice' = r.self
        /\ sres' = IF r.status # "Ok"
                   THEN SliceOutcome("get_byte_buffer", length, r.status, r.status,
                                     NoSlice, "none", <<>>)
                   ELSE SliceOutcome("get_byte_buffer", length, "Ok", "Ok",
                                     r.s, "to_vec", Deref(r.s))

\* <SliceReader as BincodeRead>::forward_read_bytes
SliceStep_forward_read_bytes(length) ==
    \E r \in {SliceReader_get_byte_slice(slice, length)} :
        /\ slice' = r.self
        /\ sres' = IF r.status # "Ok"
                   THEN SliceOutcome("forward_read_bytes", length, r.status, r.status,
                                     NoSlice, "none", <<>>)
                   ELSE SliceOutcome("forward_read_bytes", length, "Ok", "Ok",
                                     r.s, "visit_borrowed_bytes", Deref(r.s))

\* <SliceReader as io::Read>::read
SliceStep_read(n) ==
    \E r \in {slice_read(slice, n)} :
        /\ slice' = r.self
        /\ sres' = SliceOutcome("read", 0, "none", "Ok", NoSlice, "out", Deref(r.s))

\* <SliceReader as io::Read>::read_exact
SliceStep_read_exact(n, drain) ==
    \E r \in {slice_read_exact(slice, n, drain)} :
        /\ slice' = r.self
        /\ sres' = SliceOutcome("read_exact", 0, "none", r.status, NoSlice,
                                IF r.status = "Ok" THEN "out" ELSE "none", Deref(r.s))

Slice_forward_read_str ==
    \E length \in 0..MaxReq :
        SliceStep_forward_read_str(length) /\ UNCHANGED <<storage, ioVars, borrowed, delivered>>

Slice_get_byte_buffer ==
    \E length \in 0..MaxReq :
        SliceStep_get_byte_buffer(length) /\ UNCHANGED <<storage, ioVars, borrowed, delivered>>

Slice_forward_read_bytes ==
    \E length \in 0..MaxReq :
        SliceStep_forward_read_bytes(length) /\ UNCHANGED <<storage, ioVars, borrowed, delivered>>

Slice_read ==
    \E n \in 0..MaxReq :
        SliceStep_read(n) /\ UNCHANGED <<storage, ioVars, borrowed, delivered>>

Slice_read_exact ==
    \E n \in 0..MaxReq, drain \in BOOLEAN :
        SliceStep_read_exact(n, drain) /\ UNCHANGED <<storage, ioVars, borrowed, delivered>>

\* The lifetime of a view cut off by a method that leaves it out of its
\* signature: that of the borrow of the reader the call was made with.
elided_lifetime == "self"

\* get_byte_slice(&mut self, ..) -> Result<&'storage [u8]>: the view it
\* returns borrows from the region, not from the reader.
get_byte_slice_lifetime == "storage"

\* The views the caller holds after an operation of the reader: a view that
\* borrows from the reader ends with the reader's next `&mut self` call, a
\* view that borrows from the region stays, and the view of get_byte_slice
\* that this call passed to visit_borrowed_str or visit_borrowed_bytes is
\* added.
Lend ==
    borrowed' =
        (IF get_byte_slice_lifetime = "storage" THEN borrowed ELSE {})
        \cup (IF sres'.via \in {"visit_borrowed_str", "visit_borrowed_bytes"}
              THEN {[s |-> sres'.s,
                     bytes |-> SubSeq(storage, sres'.s.ptr + 1, sres'.s.ptr + sres'.s.len)]}
              ELSE {})

\* The operations of a SliceReader whose caller keeps the views it is given.
Borrow_forward_read_str ==
    \E length \in 0..MaxReq :
        SliceStep_forward_read_str(length) /\ Lend /\ UNCHANGED <<storage, ioVars, delivered>>

Borrow_get_byte_buffer ==
    \E length \in 0..MaxReq :
        SliceStep_get_byte_buffer(length) /\ Lend /\ UNCHANGED <<storage, ioVars, delivered>>

Borrow_forward_read_bytes ==
    \E length \in 0..MaxReq :
        SliceStep_forward_read_bytes(length) /\ Lend /\ UNCHANGED <<storage, ioVars, delivered>>

Borrow_read ==
    \E n \in 0..MaxReq :
        SliceStep_read(n) /\ Lend /\ UNCHANGED <<storage, ioVars, delivered>>

Borrow_read_exact ==
    \E n \in 0..MaxReq, drain \in BOOLEAN :
        SliceStep_read_exact(n, drain) /\ Lend /\ UNCHANGED <<storage, ioVars, delivered>>

----------------------------------------------------------------------------
(* Vec<u8> and the io::Read resource                                       *)

\* vec![] / Vec::new(): no storage.
Vec_new == [len |-> 0, cap |-> 0, mem |-> <<>>]

\* The whole reserved storage taken for the content.
Content_capacity(v) == v.mem

\* The initialised content of a Vec: its first len cells.
Content(v) == SubSeq(v.mem, 1, Min(v.len, Len(v.mem)))

\* n cells of reserved storage nothing has been written to.
UninitCells(n) == SubSeq(<<Uninit, Uninit, Uninit, Uninit, Uninit, Uninit, Uninit, Uninit>>, 1, n)

\* reserve_exact that moves to new storage without copying the content.
reserve_exact_drops(v, additional) ==
    IF v.cap - v.len >= additional THEN v
    ELSE [len |-> v.len, cap |-> v.len + additional,
          mem |-> UninitCells(v.len + additional)]

\* Vec::reserve_exact(additional): nothing when the capacity is sufficient;
\* otherwise a reallocation to exactly len + additional cells that keeps the
\* first len bytes (the others are indeterminate).
Vec_reserve_exact(v, additional) ==
    IF v.cap - v.len >= additional THEN v
    ELSE [len |-> v.len, cap |-> v.len + additional,
          mem |-> SubSeq(v.mem, 1, v.len) \o UninitCells(additional)]

\* Bytes the resource has left.
Remaining(rd) == Len(storage) - rd.pos

\* R::read_exact(buf) with buf of n bytes: the possible results. `wrote` is
\* the number of leading bytes of buf written, `consumed` the number of bytes
\* taken from the resource. An empty buf succeeds without a read. A resource
\* with fewer than n bytes left ends in UnexpectedEof: after writing all it
\* had (the default read_exact), or writing nothing and consuming nothing or
\* everything (the read_exact of &[u8] and Cursor). Any read of the default
\* read_exact may fail with another io::Error after part of buf was written.
R_read_exact(rd, n) ==
    LET rem == Remaining(rd)
        ok  == IF n <= rem
               THEN {[status |-> "Ok", wrote |-> n, consumed |-> n]}
               ELSE {}
        eof == IF n > rem
               THEN {[status |-> "UnexpectedEof", wrote |-> rem, consumed |-> rem],
                     [status |-> "UnexpectedEof", wrote |-> 0, consumed |-> rem],
                     [status |-> "UnexpectedEof", wrote |-> 0, consumed |-> 0]}
               ELSE {}
        err == {[status |-> "Other", wrote |-> k, consumed |-> k] : k \in 0..Min(n - 1, rem)}
    IN  ok \cup eof \cup err

\* R::read(buf) with buf of n bytes: some bytes (0 only at the end of the
\* resource or for an empty buf), or an io::Error.
R_read(rd, n) ==
    LET rem == Remaining(rd)
        most == Min(n, rem)
    IN  {[status |-> "Ok", wrote |-> k, consumed |-> k] :
            k \in IF most = 0 THEN {0} ELSE 1..most}
        \cup {[status |-> "Other", wrote |-> 0, consumed |-> 0]}

\* The bytes the resource yields next.
Next_bytes(rd, k) == SubSeq(storage, rd.pos + 1, rd.pos + k)

\* buf[..k] written with the resource's next k bytes, buf being the first
\* cells of mem.
Write(mem, rd, k) ==
    Next_bytes(rd, Min(k, Len(mem))) \o SubSeq(mem, k + 1, Len(mem))

----------------------------------------------------------------------------
(* IoReader                                                                *)

\* IoReader::new(r): the resource at its start and an empty scratch buffer.
IoReader_new == [reader |-> [pos |-> 0, last |-> "Ok"], temp_buffer |-> Vec_new]

\* fill_buffer that only ever extends the length (set_len when length > len).
fill_buffer_keeps_longer(buf, rd, length, oc) ==
    LET current_length == buf.len
        reserved == IF length > current_length
                    THEN Vec_reserve_exact(buf, length - current_length)
                    ELSE buf
        written  == [reserved EXCEPT !.mem = Write(reserved.mem, rd, oc.wrote)]
    IN  [status      |-> oc.status,
         reader      |-> [pos |-> rd.pos + oc.consumed, last |-> oc.status],
         temp_buffer |-> IF oc.status = "Ok" /\ length > current_length
                         THEN [written EXCEPT !.len = length]
                         ELSE written]

\* fill_buffer that calls set_len(length) before read_exact.
fill_buffer_len_first(buf, rd, length, oc) ==
    LET current_length == buf.len
        reserved == IF length > current_length
                    THEN Vec_reserve_exact(buf, length - current_length)
                    ELSE buf
        written  == [reserved EXCEPT !.mem = Write(reserved.mem, rd, oc.wrote)]
    IN  [status      |-> oc.status,
         reader      |-> [pos |-> rd.pos + oc.consumed, last |-> oc.status],
         temp_buffer |-> [written EXCEPT !.len = length]]

\* fill_buffer that drops the result of read_exact (no `?`).
fill_buffer_ignores_error(buf, rd, length, oc) ==
    LET current_length == buf.len
        reserved == IF length > current_length
                    THEN Vec_reserve_exact(buf, length - current_length)
                    ELSE buf
        written  == [reserved EXCEPT !.mem = Write(reserved.mem, rd, oc.wrote)]
    IN  [status      |-> "Ok",
         reader      |-> [pos |-> rd.pos + oc.consumed, last |-> oc.status],
         temp_buffer |-> [written EXCEPT !.len = length]]

\* fill_buffer that reserves `length` more cells whatever the buffer holds.
fill_buffer_always_reserves(buf, rd, length, oc) ==
    LET reserved == Vec_reserve_exact(buf, length)
        written  == [reserved EXCEPT !.mem = Write(reserved.mem, rd, oc.wrote)]
    IN  [status      |-> oc.status,
         reader      |-> [pos |-> rd.pos + oc.consumed, last |-> oc.status],
         temp_buffer |-> IF oc.status = "Ok"
                         THEN [written EXCEPT !.len = length]
                         ELSE written]

\* fill_buffer that decides by the capacity: reserve_exact(length - capacity)
\* when length > capacity.
fill_buffer_reserves_by_capacity(buf, rd, length, oc) ==
    LET reserved == IF length > buf.cap
                    THEN Vec_reserve_exact(buf, length - buf.cap)
                    ELSE buf
        written  == [reserved EXCEPT !.mem = Write(reserved.mem, rd, oc.wrote)]
    IN  [status      |-> oc.status,
         reader      |-> [pos |-> rd.pos + oc.consumed, last |-> oc.status],
         temp_buffer |-> IF oc.status = "Ok"
                         THEN [written EXCEPT !.len = length]
                         ELSE written]

\* fill_buffer(&mut self, length), the resource's read_exact ending as oc:
\* reserve, read into the first `length` cells, and set the length only
\* after the read succeeded.
fill_buffer(buf, rd, length, oc) ==
    LET current_length == buf.len
        reserved == IF length > current_length
                    THEN Vec_reserve_exact(buf, length - current_length)
                    ELSE buf
        written  == [reserved EXCEPT !.mem = Write(reserved.mem, rd, oc.wrote)]
    IN  [status      |-> oc.status,
         reader      |-> [pos |-> rd.pos + oc.consumed, last |-> oc.status],
         temp_buffer |-> IF oc.status = "Ok"
                         THEN [written EXCEPT !.len = length]
                         ELSE written]

\* The record of one IoReader operation: length is the `length` asked of a
\* materialization (a sequential read records only what it delivered), out
\* the bytes the caller received (through the visitor `via`, as the returned
\* Vec, whose capacity is retcap, or in `out`).
IoOutcome(op, length, status, via, out, retcap) ==
    [op |-> op, length |-> length, status |-> status,
     via |-> via, out |-> out, retcap |-> retcap]

\* <IoReader as BincodeRead>::forward_read_str
IoStep_forward_read_str(length, oc) ==
    \E f \in {fill_buffer(temp_buffer, reader, length, oc)} :
      \E u \in {from_utf8(Content(f.temp_buffer))} :
        /\ reader' = f.reader
        /\ temp_buffer' = f.temp_buffer
        /\ ires' = IF f.status # "Ok"
                   THEN IoOutcome("forward_read_str", length, f.status,
                                  "none", <<>>, 0)
                   ELSE IF ~u.ok
                   THEN IoOutcome("forward_read_str", length, "InvalidUtf8Encoding",
                                  "none", <<>>, 0)
                   ELSE IoOutcome("forward_read_str", length, "Ok",
                                  "visit_str", Content(f.temp_buffer), 0)

\* get_byte_buffer that returns a clone and keeps the filled buffer.
IoStep_get_byte_buffer_clones(length, oc) ==
    \E f \in {fill_buffer(temp_buffer, reader, length, oc)} :
        /\ reader' = f.reader
        /\ temp_buffer' = f.temp_buffer
        /\ ires' = IF f.status # "Ok"
                   THEN IoOutcome("get_byte_buffer", length, f.status,
                                  "none", <<>>, 0)
                   ELSE IoOutcome("get_byte_buffer", length, "Ok",
                                  "return", Content(f.temp_buffer), f.temp_buffer.cap)

\* get_byte_buffer that returns a copy and clear()s the scratch buffer, which
\* keeps its storage.
IoStep_get_byte_buffer_clears(length, oc) ==
    \E f \in {fill_buffer(temp_buffer, reader, length, oc)} :
        /\ reader' = f.reader
        /\ temp_buffer' = IF f.status = "Ok" THEN [f.temp_buffer EXCEPT !.len = 0]
                          ELSE f.temp_buffer
        /\ ires' = IF f.status # "Ok"
                   THEN IoOutcome("get_byte_buffer", length, f.status,
                                  "none", <<>>, 0)
                   ELSE IoOutcome("get_byte_buffer", length, "Ok",
                                  "return", Content(f.temp_buffer), length)

\* <IoReader as BincodeRead>::get_byte_buffer
IoStep_get_byte_buffer(length, oc) ==
    \E f \in {fill_buffer(temp_buffer, reader, length, oc)} :
        /\ reader' = f.reader
        /\ temp_buffer' = IF f.status = "Ok" THEN Vec_new ELSE f.temp_buffer
        /\ ires' = IF f.status # "Ok"
                   THEN IoOutcome("get_byte_buffer", length, f.status,
                                  "none", <<>>, 0)
                   ELSE IoOutcome("get_byte_buffer", length, "Ok",
                                  "return", Content(f.temp_buffer), f.temp_buffer.cap)

\* <IoReader as BincodeRead>::forward_read_bytes
IoStep_forward_read_bytes(length, oc) ==
    \E f \in {fill_buffer(temp_buffer, reader, length, oc)} :
        /\ reader' = f.reader
        /\ temp_buffer' = f.temp_buffer
        /\ ires' = IF f.status # "Ok"
                   THEN IoOutcome("forward_read_bytes", length, f.status,
                                  "none", <<>>, 0)
                   ELSE IoOutcome("forward_read_bytes", length, "Ok",
                                  "visit_bytes", Content(f.temp_buffer), 0)

\* read that serves the bytes left in the scratch buffer before it asks the
\* resource.
IoStep_read_from_buffer(n, oc) ==
    IF temp_buffer.len > 0 /\ n > 0
    THEN /\ reader' = [pos |-> reader.pos, last |-> "Ok"]
         /\ UNCHANGED temp_buffer
         /\ ires' = IoOutcome("read", 0, "Ok", "out",
                              SubSeq(Content(temp_buffer), 1, Min(n, temp_buffer.len)), 0)
    ELSE /\ reader' = [pos |-> reader.pos + oc.consumed, last |-> oc.status]
         /\ UNCHANGED temp_buffer
         /\ ires' = IoOutcome("read", 0, oc.status,
                              IF oc.status = "Ok" THEN "out" ELSE "none",
                              Next_bytes(reader, oc.wrote), 0)

\* <IoReader as io::Read>::read
IoStep_read(n, oc) ==
    /\ reader' = [pos |-> reader.pos + oc.consumed, last |-> oc.status]
    /\ UNCHANGED temp_buffer
    /\ ires' = IoOutcome("read", 0, oc.status,
                         IF oc.status = "Ok" THEN "out" ELSE "none",
                         Next_bytes(reader, oc.wrote), 0)

\* read_exact that goes through the scratch buffer: fill_buffer(n), then a
\* copy of the buffer into `out`.
IoStep_read_exact_via_buffer(n, oc) ==
    \E f \in {fill_buffer(temp_buffer, reader, n, oc)} :
        /\ reader' = f.reader
        /\ temp_buffer' = f.temp_buffer
        /\ ires' = IoOutcome("read_exact", 0, oc.status,
                             IF oc.status = "Ok" THEN "out" ELSE "none",
                             Next_bytes(reader, oc.wrote), 0)

\* <IoReader as io::Read>::read_exact
IoStep_read_exact(n, oc) ==
    /\ reader' = [pos |-> reader.pos + oc.consumed, last |-> oc.status]
    /\ UNCHANGED temp_buffer
    /\ ires' = IoOutcome("read_exact", 0, oc.status,
                         IF oc.status = "Ok" THEN "out" ELSE "none",
                         Next_bytes(reader, oc.wrote), 0)

Io_forward_read_str ==
    \E length \in 0..MaxReq :
        \E oc \in R_read_exact(reader, length) :
            IoStep_forward_read_str(length, oc) /\ UNCHANGED <<storage, sliceVars, borrowed, delivered>>

Io_get_byte_buffer ==
    \E length \in 0..MaxReq :
        \E oc \in R_read_exact(reader, length) :
            IoStep_get_byte_buffer(length, oc) /\ UNCHANGED <<storage, sliceVars, borrowed, delivered>>

Io_forward_read_bytes ==
    \E length \in 0..MaxReq :
        \E oc \in R_read_exact(reader, length) :
            IoStep_forward_read_bytes(length, oc) /\ UNCHANGED <<storage, sliceVars, borrowed, delivered>>

Io_read ==
    \E n \in 0..MaxReq :
        \E oc \in R_read(reader, n) :
            IoStep_read(n, oc) /\ UNCHANGED <<storage, sliceVars, borrowed, delivered>>

Io_read_exact ==
    \E n \in 0..MaxReq :
        \E oc \in R_read_exact(reader, n) :
            IoStep_read_exact(n, oc) /\ UNCHANGED <<storage, sliceVars, borrowed, delivered>>

----------------------------------------------------------------------------
(* Specifications                                                          *)

\* Both sources are constructed over the same underlying bytes.
Constructed ==
    /\ slice = SliceReader_new(storage)
    /\ sres = SliceOutcome("new", 0, "none", "Ok", NoSlice, "none", <<>>)
    /\ reader = IoReader_new.reader
    /\ temp_buffer = IoReader_new.temp_buffer
    /\ ires = IoOutcome("new", 0, "Ok", "none", <<>>, 0)
    /\ borrowed = {}
    /\ delivered = [slice |-> <<>>, io |-> <<>>]

Init ==
    /\ storage \in Inputs
    /\ Constructed

InitPair ==
    /\ storage \in {v \in Inputs : Len(v) <= MaxPairInput}
    /\ Constructed

\* A decode session over a SliceReader whose caller uses up each view
\* inside its visitor.
SliceNext ==
    \/ Slice_forward_read_str
    \/ Slice_get_byte_buffer
    \/ Slice_forward_read_bytes
    \/ Slice_read
    \/ Slice_read_exact

SpecSlice == Init /\ [][SliceNext]_vars

\* A decode session over a SliceReader whose caller keeps every view its
\* visitors were given.
BorrowNext ==
    \/ Borrow_forward_read_str
    \/ Borrow_get_byte_buffer
    \/ Borrow_forward_read_bytes
    \/ Borrow_read
    \/ Borrow_read_exact

SpecBorrow == Init /\ [][BorrowNext]_vars

\* A decode session over an IoReader.
IoNext ==
    \/ Io_forward_read_str
    \/ Io_get_byte_buffer
    \/ Io_forward_read_bytes
    \/ Io_read
    \/ Io_read_exact

SpecIo == Init /\ [][IoNext]_vars

\* A decode session that puts the same requests to a SliceReader and to an
\* IoReader built over the same bytes.
\* Its caller uses up each view inside its
\* visitor and holds none afterwards.
Pair_forward_read_str ==
    \E length \in 0..MaxReq :
        \E oc \in R_read_exact(reader, length) :
            /\ SliceStep_forward_read_str(length)
            /\ IoStep_forward_read_str(length, oc)
            /\ UNCHANGED <<storage, borrowed, delivered>>

Pair_get_byte_buffer ==
    \E length \in 0..MaxReq :
        \E oc \in R_read_exact(reader, length) :
            /\ SliceStep_get_byte_buffer(length)
            /\ IoStep_get_byte_buffer(length, oc)
            /\ UNCHANGED <<storage, borrowed, delivered>>

Pair_forward_read_bytes ==
    \E length \in 0..MaxReq :
        \E oc \in R_read_exact(reader, length) :
            /\ SliceStep_forward_read_bytes(length)
            /\ IoStep_forward_read_bytes(length, oc)
            /\ UNCHANGED <<storage, borrowed, delivered>>

Pair_read ==
    \E n \in 0..MaxReq :
        \E oc \in R_read(reader, n) :
            /\ SliceStep_read(n)
            /\ IoStep_read(n, oc)
            /\ UNCHANGED <<storage, borrowed, delivered>>

Pair_read_exact ==
    \E n \in 0..MaxReq, drain \in BOOLEAN :
        \E oc \in R_read_exact(reader, n) :
            /\ SliceStep_read_exact(n, drain)
            /\ IoStep_read_exact(n, oc)
            /\ UNCHANGED <<storage, borrowed, delivered>>

PairNext ==
    \/ Pair_forward_read_str
    \/ Pair_get_byte_buffer
    \/ Pair_forward_read_bytes
    \/ Pair_read
    \/ Pair_read_exact

SpecPair == InitPair /\ [][PairNext]_vars

\* The caller appends what an operation of the SliceReader delivered to what
\* it has received from it.
DeliverSlice == delivered' = [delivered EXCEPT !.slice = @ \o sres'.out]

\* The caller appends what an operation of the IoReader delivered to what it
\* has received from it.
DeliverIo == delivered' = [delivered EXCEPT !.io = @ \o ires'.out]

\* A decode session over one of the two sources (the other is constructed
\* and left alone) in which every operation succeeds, the caller collecting
\* what the source delivers.
SliceOk_forward_read_str ==
    \E length \in 0..MaxReq :
        /\ SliceStep_forward_read_str(length)
        /\ sres'.status = "Ok" /\ DeliverSlice
        /\ ires.op = "new"
        /\ UNCHANGED <<storage, ioVars, borrowed>>

SliceOk_get_byte_buffer ==
    \E length \in 0..MaxReq :
        /\ SliceStep_get_byte_buffer(length)
        /\ sres'.status = "Ok" /\ DeliverSlice
        /\ ires.op = "new"
        /\ UNCHANGED <<storage, ioVars, borrowed>>

SliceOk_forward_read_bytes ==
    \E length \in 0..MaxReq :
        /\ SliceStep_forward_read_bytes(length)
        /\ sres'.status = "Ok" /\ DeliverSlice
        /\ ires.op = "new"
        /\ UNCHANGED <<storage, ioVars, borrowed>>

SliceOk_read ==
    \E n \in 0..MaxReq :
        /\ SliceStep_read(n)
        /\ sres'.status = "Ok" /\ DeliverSlice
        /\ ires.op = "new"
        /\ UNCHANGED <<storage, ioVars, borrowed>>

SliceOk_read_exact ==
    \E n \in 0..MaxReq, drain \in BOOLEAN :
        /\ SliceStep_read_exact(n, drain)
        /\ sres'.status = "Ok" /\ DeliverSlice
        /\ ires.op = "new"
        /\ UNCHANGED <<storage, ioVars, borrowed>>

IoOk_forward_read_str ==
    \E length \in 0..MaxReq :
        \E oc \in R_read_exact(reader, length) :
            /\ IoStep_forward_read_str(length, oc)
            /\ ires'.status = "Ok" /\ DeliverIo
            /\ sres.op = "new"
            /\ UNCHANGED <<storage, sliceVars, borrowed>>

IoOk_get_byte_buffer ==
    \E length \in 0..MaxReq :
        \E oc \in R_read_exact(reader, length) :
            /\ IoStep_get_byte_buffer(length, oc)
            /\ ires'.status = "Ok" /\ DeliverIo
            /\ sres.op = "new"
            /\ UNCHANGED <<storage, sliceVars, borrowed>>

IoOk_forward_read_bytes ==
    \E length \in 0..MaxReq :
        \E oc \in R_read_exact(reader, length) :
            /\ IoStep_forward_read_bytes(length, oc)
            /\ ires'.status = "Ok" /\ DeliverIo
            /\ sres.op = "new"
            /\ UNCHANGED <<storage, sliceVars, borrowed>>

IoOk_read ==
    \E n \in 0..MaxReq :
        \E oc \in R_read(reader, n) :
            /\ IoStep_read(n, oc)
            /\ ires'.status = "Ok" /\ DeliverIo
            /\ sres.op = "new"
            /\ UNCHANGED <<storage, sliceVars, borrowed>>

IoOk_read_exact ==
    \E n \in 0..MaxReq :
        \E oc \in R_read_exact(reader, n) :
            /\ IoStep_read_exact(n, oc)
            /\ ires'.status = "Ok" /\ DeliverIo
            /\ sres.op = "new"
            /\ UNCHANGED <<storage, sliceVars, borrowed>>

AllOkNext ==
    \/ SliceOk_forward_read_str
    \/ SliceOk_get_byte_buffer
    \/ SliceOk_forward_read_bytes
    \/ SliceOk_read
    \/ SliceOk_read_exact
    \/ IoOk_forward_read_str
    \/ IoOk_get_byte_buffer
    \/ IoOk_forward_read_bytes
    \/ IoOk_read
    \/ IoOk_read_exact

SpecAllOk == Init /\ [][AllOkNext]_vars

----------------------------------------------------------------------------
(* What the last IoReader operation shows of its fill_buffer call          *)

\* The last operation was a materialization whose fill_buffer succeeded.
IoFilled == ires.op \in MatOps /\ ires.status \in {"Ok", "InvalidUtf8Encoding"}

\* The last operation was a materialization whose fill_buffer failed.
IoFillFailed == ires.op \in MatOps /\ ires.status \in {"UnexpectedEof", "Other"}

\* The last operation handed the filled buffer to the caller.
HandedOut == ires.op = "get_byte_buffer" /\ ires.status = "Ok"

\* The scratch buffer as fill_buffer left it: the buffer itself, or the Vec
\* get_byte_buffer returned in its place.
FillLen == IF HandedOut THEN Len(ires.out) ELSE temp_buffer.len
FillContent == IF HandedOut THEN ires.out ELSE Content(temp_buffer)
FillCap == IF HandedOut THEN ires.retcap ELSE temp_buffer.cap

\* Both sources stand at the same byte of the input.
InSync == slice.ptr = reader.pos

----------------------------------------------------------------------------
(* Properties of SliceReader (SpecSlice)                                   *)

\* C1: get_byte_slice(length) with length <= the remaining bytes returns
\* exactly the first `length` remaining bytes, in order, and leaves as
\* remaining bytes the old ones without those first `length`, so that the
\* next read starts right after them.
C1_GetByteSliceSplitsPrefix ==
    [][(sres'.op \in MatOps /\ sres'.length <= slice.len) =>
          /\ sres'.gbs = "Ok"
          /\ sres'.s = [ptr |-> slice.ptr, len |-> sres'.length]
          /\ Deref(sres'.s) = Take(Deref(slice), sres'.length)
          /\ Deref(slice') = Drop(Deref(slice), sres'.length)
          /\ slice'.ptr = slice.ptr + sres'.length
          /\ slice'.ptr + slice'.len = slice.ptr + slice.len]_vars

\* A view of at least one byte was split off in the middle of the region.
C1_Witness ==
    /\ sres.op \in MatOps /\ sres.gbs = "Ok"
    /\ sres.s.ptr > 0 /\ sres.s.len > 0
    /\ slice.ptr = sres.s.ptr + sres.s.len
    /\ slice.len > 0

\* C2: get_byte_slice(length) with length > the remaining bytes (also on an
\* exhausted source) fails with unexpected-end-of-input and leaves the
\* remaining bytes as they were.
C2_GetByteSliceEofKeepsSlice ==
    [][(sres'.op \in MatOps /\ sres'.length > slice.len) =>
          /\ sres'.gbs = "UnexpectedEof"
          /\ sres'.status = "UnexpectedEof"
          /\ sres'.via = "none"
          /\ slice' = slice
          /\ Deref(slice') = Deref(slice)]_vars

\* A materialization failed on a source that still had bytes, after an
\* earlier one had advanced it.
C2_Witness ==
    /\ sres.op \in MatOps /\ sres.status = "UnexpectedEof"
    /\ slice.ptr > 0 /\ slice.len > 0
    /\ sres.length > slice.len

----------------------------------------------------------------------------
(* Properties of IoReader (SpecIo)                                         *)

\* C3: a fill_buffer(length) whose exact read succeeds leaves the scratch
\* buffer with logical length `length` and content equal to the next
\* `length` bytes of the resource, whatever the buffer held before.
C3_FillHoldsNextBytes ==
    [][IoFilled' =>
          /\ FillLen' = ires'.length
          /\ ires'.length <= Remaining(reader)
          /\ FillContent' = Next_bytes(reader, ires'.length)
          /\ reader'.pos = reader.pos + ires'.length]_vars

\* A fill of one byte succeeded in a buffer whose second cell still holds a
\* byte of an earlier, longer fill.
C3_Witness ==
    /\ IoFilled /\ ires.length = 1
    /\ temp_buffer.len = 1 /\ temp_buffer.cap >= 2
    /\ reader.pos = 3
    /\ temp_buffer.mem[1] = storage[3]
    /\ temp_buffer.mem[2] = storage[2]
    /\ storage[2] # storage[3]

\* C4: fill_buffer commits the logical length only after the exact read
\* succeeded: when the resource has fewer than `length` bytes left or
\* reports an error, also after writing part of the bytes, fill_buffer fails
\* with the resource's error and the logical length is what it was.
C4_FailedFillKeepsLength ==
    [][ires'.op \in MatOps =>
          /\ (ires'.length > Remaining(reader) => IoFillFailed')
          /\ (reader'.last # "Ok" =>
                /\ IoFillFailed'
                /\ ires'.status = reader'.last
                /\ ires'.via = "none"
                /\ temp_buffer'.len = temp_buffer.len)]_vars

\* A fill longer than the buffer's content failed at the end of the
\* resource after consuming what was left.
C4_Witness ==
    /\ IoFillFailed /\ ires.status = "UnexpectedEof"
    /\ temp_buffer.len >= 1
    /\ ires.length > temp_buffer.len
    /\ reader.pos = Len(storage)
    /\ reader.pos > temp_buffer.len

\* C5, as claimed: a failed fill_buffer leaves the logical length and every
\* byte within it as before.
C5_FailedFillKeepsContent ==
    [][IoFillFailed' =>
          /\ temp_buffer'.len = temp_buffer.len
          /\ Content(temp_buffer') = Content(temp_buffer)]_vars

\* C5, amended: a failed fill_buffer leaves the logical length as before,
\* and the bytes within it are as before except for the leading ones the
\* failed read overwrote with the resource's next bytes; none of them is
\* delivered.
C5_FailedFillKeepsLengthAndTail ==
    [][IoFillFailed' =>
          /\ temp_buffer'.len = temp_buffer.len
          /\ ires'.via = "none"
          /\ \E k \in 0..Min(ires'.length, Remaining(reader)) :
                Content(temp_buffer') =
                    Take(Next_bytes(reader, k) \o Drop(Content(temp_buffer), k),
                         temp_buffer.len)]_vars

\* A fill failed with an error after overwriting the first byte of a
\* non-empty buffer.
C5_Witness ==
    /\ IoFillFailed /\ ires.status = "Other" /\ ires.length = 2
    /\ temp_buffer.len = 1
    /\ reader.pos = 2
    /\ temp_buffer.mem[1] = storage[2]
    /\ storage[1] # storage[2]

\* C6, as claimed: between calls the logical length of the scratch buffer
\* is 0.
C6_LengthZeroBetweenCalls == temp_buffer.len = 0

\* C6, amended: the logical length is 0 after construction and after a
\* successful get_byte_buffer; after any other materialization whose fill
\* succeeded it is that call's `length`; failed fills, read and read_exact
\* leave it as it was. The capacity is never below it.
C6_LengthBetweenCalls ==
    /\ temp_buffer.len = 0
    /\ [][/\ temp_buffer'.len = IF HandedOut' THEN 0
                               ELSE IF IoFilled' THEN ires'.length
                               ELSE temp_buffer.len
          /\ temp_buffer'.cap >= temp_buffer'.len]_vars

\* A sequential read completed on a source whose buffer still holds the
\* bytes of an earlier materialization.
C6_Witness ==
    /\ ires.op \in {"read", "read_exact"}
    /\ temp_buffer.len > 0

\* C8: every byte a materialization delivers (to the visitor or in the
\* returned buffer) was written by the exact read of that call, which
\* succeeded: the delivered bytes are the `length` bytes the resource
\* yielded in this call, never bytes of an earlier or failed read nor
\* unwritten capacity, and a call whose read fails delivers nothing.
C8_OnlyWrittenBytesDelivered ==
    [][ires'.op \in MatOps =>
          /\ (reader'.last # "Ok" => ires'.via = "none")
          /\ IF ires'.via = "none" THEN ires'.out = <<>>
             ELSE /\ reader'.last = "Ok" /\ ires'.status = "Ok"
                  /\ Len(ires'.out) = ires'.length
                  /\ ires'.length <= Remaining(reader)
                  /\ ires'.out = Next_bytes(reader, ires'.length)
                  /\ reader'.pos = reader.pos + ires'.length
                  /\ \A i \in 1..Len(ires'.out) : ires'.out[i] # Uninit]_vars

\* One byte was delivered from a buffer that also holds a byte of an earlier
\* read and a cell never written.
C8_Witness ==
    /\ ires.op \in MatOps /\ ires.via \in {"visit_str", "visit_bytes"}
    /\ Len(ires.out) = 1
    /\ temp_buffer.cap = 3
    /\ temp_buffer.mem[2] \in 0..255
    /\ temp_buffer.mem[3] = Uninit

\* C10, as claimed, for a fill that directly follows the fill of length L:
\* a fill of length <= L leaves the capacity as it was.
C10_NoReallocAfterAnyFill ==
    [][(IoFilled /\ ires'.op \in MatOps /\ ires'.length <= ires.length) =>
          FillCap' = temp_buffer.cap]_vars

\* C10, amended: once the scratch buffer was filled with length L, a later
\* fill of length <= L leaves the capacity as it was, provided no
\* get_byte_buffer succeeded in between. A successful fill of L that is not
\* handed out leaves a capacity >= L; only a successful get_byte_buffer
\* lowers the capacity; and a fill of a length <= the capacity leaves the
\* capacity as it was.
C10_NoReallocWhileBufferKept ==
    [][/\ (IoFilled' /\ ~HandedOut' => temp_buffer'.cap >= ires'.length)
       /\ (~HandedOut' => temp_buffer'.cap >= temp_buffer.cap)
       /\ (ires'.op \in MatOps /\ ires'.length <= temp_buffer.cap =>
              FillCap' = temp_buffer.cap)]_vars

\* A fill of one byte succeeded in a buffer an earlier fill of two bytes had
\* grown to capacity 2.
C10_Witness ==
    /\ IoFilled /\ ~HandedOut /\ ires.length = 1
    /\ temp_buffer.len = 1 /\ temp_buffer.cap = 2
    /\ reader.pos = 3
    /\ temp_buffer.mem[2] = storage[2]

----------------------------------------------------------------------------
(* Properties of both sources over the same bytes (SpecPair)               *)

\* C7, as claimed: a materialization that fails with unexpected-end-of-input
\* or invalid-encoding leaves the Slice Source's remaining bytes, the
\* Stream Source's position in the resource and the logical length of its
\* scratch buffer as before the call.
C7_FailureChangesNothing ==
    [][/\ (sres'.op \in MatOps /\ sres'.status \in {"UnexpectedEof", "InvalidUtf8Encoding"}
             => slice' = slice)
       /\ (ires'.op \in MatOps /\ ires'.status \in {"UnexpectedEof", "InvalidUtf8Encoding"}
             => /\ reader'.pos = reader.pos
                /\ temp_buffer'.len = temp_buffer.len)]_vars

\* C7, amended: a materialization that fails with unexpected-end-of-input
\* leaves the Slice Source's remaining bytes and the logical length of the
\* Stream Source's scratch buffer as before the call, while the resource may
\* have been advanced by the failed read; a forward_read_str that fails with
\* invalid-encoding fails after the bytes were consumed: the Slice Source is
\* past the `length` bytes, the resource advanced by `length` and the
\* scratch buffer's logical length is `length`.
C7_FailureEffects ==
    [][/\ (sres'.op \in MatOps /\ sres'.status = "UnexpectedEof" => slice' = slice)
       /\ (sres'.op \in MatOps /\ sres'.status = "InvalidUtf8Encoding" =>
              /\ sres'.op = "forward_read_str"
              /\ slice'.ptr = slice.ptr + sres'.length
              /\ slice'.len = slice.len - sres'.length)
       /\ (ires'.op \in MatOps /\ ires'.status = "UnexpectedEof" =>
              /\ temp_buffer'.len = temp_buffer.len
              /\ reader'.pos \in reader.pos..Len(storage))
       /\ (ires'.op \in MatOps /\ ires'.status = "InvalidUtf8Encoding" =>
              /\ ires'.op = "forward_read_str"
              /\ reader'.pos = reader.pos + ires'.length
              /\ temp_buffer'.len = ires'.length)]_vars

\* forward_read_str failed with invalid-encoding on both sources after both
\* had consumed the bytes.
C7_Witness ==
    /\ sres.op = "forward_read_str" /\ sres.status = "InvalidUtf8Encoding"
    /\ ires.op = "forward_read_str" /\ ires.status = "InvalidUtf8Encoding"
    /\ sres.length >= 1
    /\ slice.ptr = sres.length
    /\ reader.pos = ires.length
    /\ temp_buffer.len = ires.length

\* C9: over the same bytes and after the same successful materializations
\* (both sources stand at the same byte), a materialization that succeeds on
\* both delivers the same bytes from the IoReader as get_byte_slice returns
\* on the SliceReader, and leaves both at the same byte again; and
\* forward_read_str(L) over the encoding of a string of L bytes passes that
\* very string to the visitor of either source.
C9_SourcesDeliverTheSame ==
    [][/\ (InSync /\ sres'.op \in MatOps /\ sres'.status = "Ok" /\ ires'.status = "Ok") =>
              /\ ires'.out = Deref(sres'.s)
              /\ sres'.out = ires'.out
              /\ Len(ires'.out) = ires'.length
              /\ slice'.ptr = reader'.pos
       /\ (/\ slice.ptr = 0 /\ reader.pos = 0
           /\ sres'.op = "forward_read_str" /\ sres'.length = Len(storage)
           /\ ires'.op = "forward_read_str" /\ ires'.length = Len(storage)
           /\ reader'.last = "Ok") =>
              \A str \in Strings :
                  storage = as_bytes(str) =>
                      /\ sres'.status = "Ok" /\ sres'.via = "visit_borrowed_str"
                      /\ ires'.status = "Ok" /\ ires'.via = "visit_str"
                      /\ chars(sres'.out) = str
                      /\ chars(ires'.out) = str]_vars

\* The two-byte encoding of U+00C0 was decoded by both sources.
C9_Witness ==
    /\ storage = as_bytes(<<192>>)
    /\ sres.op = "forward_read_str" /\ sres.status = "Ok"
    /\ ires.op = "forward_read_str" /\ ires.status = "Ok"
    /\ chars(sres.out) = <<192>>
    /\ chars(ires.out) = <<192>>

----------------------------------------------------------------------------
(* Failure classes of forward_read_str (SpecPair)                          *)

\* The bytes v are the encoding of a text.
IsEncoding(v) == \E str \in Strings : as_bytes(str) = v

\* C11: forward_read_str(length) fails with unexpected-end-of-input exactly
\* when fewer than `length` bytes are left, whatever they are, and with
\* invalid-encoding exactly when `length` bytes are left and are not the
\* encoding of a text; a failure does not reach the visitor. This holds of
\* the SliceReader, and of the IoReader whenever its resource reports no
\* error other than the end of its bytes; from the same byte of the same
\* input both end in the same class.
C11_ForwardReadStrFailureClasses ==
    [][/\ sres'.op = "forward_read_str" =>
              /\ (sres'.status = "UnexpectedEof") <=> (sres'.length > slice.len)
              /\ (sres'.status = "InvalidUtf8Encoding") <=>
                     (/\ sres'.length <= slice.len
                      /\ ~IsEncoding(SubSeq(storage, slice.ptr + 1, slice.ptr + sres'.length)))
              /\ sres'.status \in {"Ok", "UnexpectedEof", "InvalidUtf8Encoding"}
              /\ (sres'.status # "Ok" => sres'.via = "none" /\ sres'.out = <<>>)
       /\ (ires'.op = "forward_read_str" /\ reader'.last # "Other") =>
              /\ (ires'.status = "UnexpectedEof") <=> (ires'.length > Remaining(reader))
              /\ (ires'.status = "InvalidUtf8Encoding") <=>
                     (/\ ires'.length <= Remaining(reader)
                      /\ ~IsEncoding(Next_bytes(reader, ires'.length)))
              /\ ires'.status \in {"Ok", "UnexpectedEof", "InvalidUtf8Encoding"}
              /\ (ires'.status # "Ok" => ires'.via = "none" /\ ires'.out = <<>>)
       /\ (/\ InSync
           /\ sres'.op = "forward_read_str" /\ ires'.op = "forward_read_str"
           /\ reader'.last # "Other") =>
              sres'.status = ires'.status]_vars

\* A lone continuation byte 0x80 asked for as a string of one byte: both
\* sources failed with invalid-encoding, and no visitor was called.
C11_Witness ==
    /\ Len(storage) >= 1
    /\ storage[1] = 128
    /\ sres.op = "forward_read_str" /\ sres.length = 1
    /\ sres.status = "InvalidUtf8Encoding" /\ sres.via = "none"
    /\ ires.op = "forward_read_str" /\ ires.length = 1
    /\ ires.status = "InvalidUtf8Encoding" /\ ires.via = "none"
    /\ slice.ptr = 1 /\ reader.pos = 1

----------------------------------------------------------------------------
(* Views handed out by the SliceReader (SpecBorrow)                        *)

----------------------------------------------------------------------------
(* get_byte_buffer of the IoReader (SpecIo)                                *)

\* C13: a successful get_byte_buffer(length) returns the scratch buffer
\* itself, with its storage: the Vec returned has exactly `length` bytes,
\* the next `length` bytes of the resource, and the capacity the scratch
\* buffer had come to; the IoReader is left with a fresh Vec of logical
\* length 0 that has no storage, so none of the returned bytes.
C13_GetByteBufferHandsBufferOver ==
    [][(ires'.op = "get_byte_buffer" /\ ires'.status = "Ok") =>
          /\ Len(ires'.out) = ires'.length
          /\ ires'.length <= Remaining(reader)
          /\ ires'.out = Next_bytes(reader, ires'.length)
          /\ ires'.retcap >= ires'.length
          /\ ires'.retcap >= temp_buffer.cap
          /\ temp_buffer'.len = 0
          /\ temp_buffer'.cap = 0
          /\ temp_buffer'.mem = <<>>]_vars

\* get_byte_buffer(1) handed over a scratch buffer that an earlier, longer
\* fill had grown, and left an empty one.
C13_Witness ==
    /\ ires.op = "get_byte_buffer" /\ ires.status = "Ok"
    /\ ires.length = 1 /\ Len(ires.out) = 1
    /\ ires.retcap >= 2
    /\ reader.pos = 3
    /\ ires.out = <<storage[3]>>
    /\ temp_buffer = Vec_new

----------------------------------------------------------------------------
(* Sequential reads of the IoReader (SpecIo)                               *)

\* C14: read and read_exact of the IoReader go to the resource and not to
\* the scratch buffer: whether they succeed or fail, the buffer's logical
\* length, its capacity and its cells are what they were, the resource does
\* not move backwards, and what a successful one delivers are the bytes the
\* resource advanced over.
C14_SequentialReadsBypassBuffer ==
    [][ires'.op \in {"read", "read_exact"} =>
          /\ temp_buffer'.len = temp_buffer.len
          /\ temp_buffer'.cap = temp_buffer.cap
          /\ temp_buffer'.mem = temp_buffer.mem
          /\ reader'.pos >= reader.pos
          /\ reader'.pos <= Len(storage)
          /\ (ires'.status = "Ok" =>
                 ires'.out = SubSeq(storage, reader.pos + 1, reader'.pos))]_vars

\* A read_exact delivered the third byte of the input while the scratch
\* buffer kept the two bytes of an earlier fill.
C14_Witness ==
    /\ ires.op = "read_exact" /\ ires.status = "Ok"
    /\ reader.pos = 3
    /\ ires.out = <<storage[3]>>
    /\ temp_buffer.len = 2
    /\ Content(temp_buffer) = <<storage[1], storage[2]>>

----------------------------------------------------------------------------
(* The region of the SliceReader (SpecSlice)                               *)

\* C15: the SliceReader's slice is always a suffix of the region it was
\* built over; no operation, successful or failed, makes it longer or moves
\* its start back; and its start is the next unread byte: what a successful
\* operation delivers are the bytes from the old start up to the new one.
C15_SliceShrinksFromFront ==
    /\ slice.ptr = 0 /\ slice.len = Len(storage)
    /\ [][/\ slice'.ptr + slice'.len = Len(storage')
          /\ storage' = storage
          /\ slice'.len <= slice.len
          /\ slice'.ptr >= slice.ptr
          /\ (sres'.status = "Ok" =>
                 sres'.out = SubSeq(storage, slice.ptr + 1, slice'.ptr))]_vars

\* After an earlier operation took the first byte, a read took the other
\* two and left the empty suffix.
C15_Witness ==
    /\ Len(storage) = 3
    /\ sres.op = "read" /\ sres.status = "Ok"
    /\ sres.out = <<storage[2], storage[3]>>
    /\ slice.ptr = 3 /\ slice.len = 0

----------------------------------------------------------------------------
(* Reserved storage of the scratch buffer (SpecIo)                         *)

\* C16: whatever the state of the IoReader and the `length` asked for, the
\* buffer fill_buffer reads into has a capacity of at least `length`, so the
\* `length` cells the read may write are reserved cells, whether the read
\* then succeeds or fails; and fill_buffer leaves the capacity no smaller
\* than it found it. (The buffer is temp_buffer, or the Vec a successful
\* get_byte_buffer returned in its place.)
C16_FillWritesInsideCapacity ==
    [][ires'.op \in MatOps =>
          LET cap == IF ires'.op = "get_byte_buffer" /\ ires'.status = "Ok"
                     THEN ires'.retcap ELSE temp_buffer'.cap
          IN  /\ cap >= ires'.length
              /\ cap >= temp_buffer.cap
              /\ temp_buffer'.len <= temp_buffer'.cap
              /\ Len(temp_buffer'.mem) = temp_buffer'.cap]_vars

\* A fill of 3 bytes over a buffer of logical length 1 reserved 3 cells and
\* then failed in its read.
C16_Witness ==
    /\ IoFillFailed
    /\ ires.length = 3
    /\ temp_buffer.len = 1
    /\ temp_buffer.cap = 3

----------------------------------------------------------------------------
(* Interleaved reads and materializations (SpecAllOk)                      *)

\* C17: in a session all of whose operations (read, read_exact,
\* forward_read_str, forward_read_bytes, get_byte_buffer, in any order)
\* succeed, what each source has delivered so far, in call order, is the
\* prefix of the input that ends where the source stands: no byte is
\* delivered twice, none is skipped, and the IoReader's resource is never
\* ahead of what was delivered.
C17_DeliveredIsPrefix ==
    /\ slice.ptr <= Len(storage)
    /\ reader.pos <= Len(storage)
    /\ delivered.slice = SubSeq(storage, 1, slice.ptr)
    /\ delivered.io = SubSeq(storage, 1, reader.pos)
    /\ Len(delivered.slice) = slice.ptr
    /\ Len(delivered.io) = reader.pos

\* The IoReader delivered the first byte in a materialization, which left
\* it in the scratch buffer, and the other two in sequential reads.
C17_Witness ==
    /\ Len(storage) = 3
    /\ delivered.io = storage
    /\ ires.op = "read" /\ ires.status = "Ok"
    /\ Len(ires.out) >= 1
    /\ temp_buffer.len = 1
    /\ Content(temp_buffer) = <<storage[1]>>

----------------------------------------------------------------------------
(* Materializations of length 0 (SpecPair)                                 *)

\* C18: a materialization of length 0 succeeds on both sources in every
\* state, an exhausted source included (a read_exact into an empty buffer
\* asks nothing of the resource): it delivers the empty sequence,
\* forward_read_str(0) passing the empty string to the visitor; the
\* SliceReader's slice and the position of the IoReader's resource are what
\* they were, and the scratch buffer ends with logical length 0.
C18_LengthZeroSucceeds ==
    [][/\ (sres'.op \in MatOps /\ sres'.length = 0) =>
              /\ sres'.status = "Ok"
              /\ sres'.out = <<>>
              /\ sres'.s.len = 0
              /\ slice' = slice
              /\ (sres'.op = "forward_read_str" =>
                      sres'.via = "visit_borrowed_str" /\ chars(sres'.out) = <<>>)
       /\ (ires'.op \in MatOps /\ ires'.length = 0) =>
              /\ ires'.status = "Ok"
              /\ ires'.out = <<>>
              /\ reader'.pos = reader.pos
              /\ temp_buffer'.len = 0
              /\ (ires'.op = "forward_read_str" =>
                      ires'.via = "visit_str" /\ chars(ires'.out) = <<>>)]_vars

\* forward_read_str(0) succeeded on both sources after each had delivered
\* all of a non-empty input, the scratch buffer keeping the storage of an
\* earlier fill.
C18_Witness ==
    /\ Len(storage) >= 1
    /\ slice.ptr = Len(storage) /\ slice.len = 0
    /\ reader.pos = Len(storage)
    /\ sres.op = "forward_read_str" /\ sres.length = 0
    /\ sres.status = "Ok" /\ sres.via = "visit_borrowed_str"
    /\ ires.op = "forward_read_str" /\ ires.length = 0
    /\ ires.status = "Ok" /\ ires.via = "visit_str"
    /\ temp_buffer.len = 0 /\ temp_buffer.cap >= 1

====
